---- MODULE Spec2Model ----
(***************************************************************************)
(* Model of the session-persistence layer of fastmcp.                      *)
(*                                                                         *)
(* MemorySessionStore (src/src/session-store/MemorySessionStore.ts) is     *)
(* modelled as a state machine: the #sessions Map (in insertion order),    *)
(* the #ttlMs option, the #cleanupInterval timer handle, the wall clock    *)
(* read by Date.now(), and the continuations of update() calls that are    *)
(* suspended at `await this.get(sessionId)`.                               *)
(*                                                                         *)
(* Every method other than update() contains no suspension point before    *)
(* its last state access, so it is one atomic action.  update() is two     *)
(* actions: the synchronous part up to the await (updateCall) and the      *)
(* continuation that runs from the microtask queue (updateResume).         *)
(***************************************************************************)
EXTENDS FiniteSets, Integers, Sequences, TLC

\* ------------------------------------------------------------------------
\* Bounds of the model
\* ------------------------------------------------------------------------

\* number of ids randomUUID() hands out in one run
MaxIds == 2

\* last instant of the wall clock
MaxTime == 2

\* largest ttlMs option the store is constructed with
MaxTtl == 1

\* number of update() calls that may be suspended at their await at once
MaxPending == 2

\* number of update() calls of one run that find their session
MaxUpdates == 2

\* number of store calls of one run that are made to reject
MaxFaults == 2

\* number of state mutations of the live sessions in one run
MaxMutations == 3

\* number of RedisSessionStore calls of one run
MaxRemoteCalls == 3

\* number of callers that may have a RedisSessionStore call in flight at once
MaxCallers == 2

\* number of steps in one run of the MemorySessionStore on its own
MaxSteps == 5

\* number of steps in one run of the session objects over the store
MaxSyncSteps == 6

\* the debounce delay of a sync, 50 ms, as one step of the clock
SyncDebounce == 1

\* ------------------------------------------------------------------------
\* Values
\* ------------------------------------------------------------------------

\* ids produced by randomUUID(); an id not handed out yet is also the id of
\* no session ("non-existent", "hacked-id")
Ids == 1..MaxIds

TtlValues == 0..MaxTtl

\* JavaScript null (the result of get on a miss)
Null == [null |-> TRUE]

\* JavaScript undefined (an absent auth payload)
Undefined == [undefined |-> TRUE]

\* auth payloads: absent, or an object of string-valued properties
AuthValues ==
  { Undefined,
    [role |-> "admin", userId |-> "u1"] }

\* filters handed to list(): NoFilter is the omitted argument
NoFilter == [nofilter |-> TRUE]

Filters ==
  { [role |-> "admin"],
    [role |-> "user"],
    [role |-> "admin", userId |-> "u2"] }

\* the fields create() assigns itself
AutoFields == {"createdAt", "lastActivityAt", "sessionId"}

\* argument of create(): the data fields, with or without own values for
\* the auto-assigned fields (the Omit<> type is erased at run time)
BaseData ==
  { [auth |-> a, clientCapabilities |-> Null, connectionState |-> "ready",
     httpHeaders |-> Undefined, loggingLevel |-> "info", roots |-> <<>>]
      : a \in AuthValues }

CreateInputs ==
  BaseData \cup
  { [auth |-> Undefined, clientCapabilities |-> Null,
     connectionState |-> "ready", httpHeaders |-> Undefined,
     loggingLevel |-> "info", roots |-> <<>>,
     createdAt |-> MaxTime + 1, lastActivityAt |-> MaxTime + 1,
     sessionId |-> 0] }

\* argument of update(sessionId, data): Partial<SerializableSessionData<T>>;
\* the payloads that name sessionId name another id than the one updated
Payloads(sessionId) ==
  { [connectionState |-> "closed", createdAt |-> MaxTime] }
  \cup { [loggingLevel |-> "debug", sessionId |-> j, lastActivityAt |-> 0]
            : j \in Ids \ {sessionId} }

\* ------------------------------------------------------------------------
\* State
\* ------------------------------------------------------------------------

VARIABLES
  sessions,         \* #sessions: the Map, as its entries in insertion order
  ttlMs,            \* #ttlMs
  cleanupInterval,  \* #cleanupInterval: "armed" or "null"
  now,              \* the value Date.now() returns
  issued,           \* the ids randomUUID() has returned so far
  pending,          \* update() calls suspended at their await, oldest first
  updateCalls,      \* how many update() calls have found their session so far
  deleted,          \* history: the ids for which delete() has returned true
  lastOp,           \* the most recent call: its name, arguments and result
  fastSessions,     \* per id: the session object of the server, if any
  timeouts,         \* per id: due instants of the armed sync timeouts
  debugLog,         \* what the logger's debug() has been called with
  storeFaults,      \* how many store calls have been made to reject so far
  mutations,        \* how many state mutations have happened so far
  lastSync,         \* the most recent step of a session object
  redisData,        \* the backend's string keys: key -> serialized record
  redisSets,        \* the backend's set keys: key -> members
  redisStore,       \* the RedisSessionStore object: its options and client
  calls,            \* per caller: the store call it has in flight
  remoteCalls,      \* how many RedisSessionStore calls have been made so far
  lastRemote,       \* the most recent call of the RedisSessionStore to return
  steps             \* how many steps the run has taken so far

vars == <<sessions, ttlMs, cleanupInterval, now, issued, pending, updateCalls,
          deleted, lastOp>>

\* the state of the session objects and of their timers
syncVars == <<fastSessions, timeouts, debugLog, storeFaults, mutations, lastSync>>

\* the state of the RedisSessionStore, of its backend and of its callers
remoteVars == <<redisData, redisSets, redisStore, calls, remoteCalls, lastRemote>>

\* what the steps of the MemorySessionStore leave alone
otherVars == <<syncVars, remoteVars>>

\* ------------------------------------------------------------------------
\* Map and object primitives
\* ------------------------------------------------------------------------

\* Map.prototype.has
MapHas(m, id) == \E i \in 1..Len(m) : m[i].sessionKey = id

MapIndex(m, id) == CHOOSE i \in 1..Len(m) : m[i].sessionKey = id

\* Map.prototype.get (of a key that is present)
MapGet(m, id) == m[MapIndex(m, id)].value

\* Map.prototype.set: a present key keeps its position, a new one is appended
MapSet(m, id, v) ==
  IF MapHas(m, id)
    THEN [m EXCEPT ![MapIndex(m, id)] = [sessionKey |-> id, value |-> v]]
    ELSE Append(m, [sessionKey |-> id, value |-> v])

\* Map.prototype.delete
MapDelete(m, id) == SelectSeq(m, LAMBDA e : e.sessionKey # id)

MapKeys(m) == { m[i].sessionKey : i \in 1..Len(m) }

\* object spread { ...a, ...b }
Spread(a, b) ==
  [k \in DOMAIN a \cup DOMAIN b |-> IF k \in DOMAIN b THEN b[k] ELSE a[k]]

\* the TTL test written with >= : a record idle for exactly ttlMs is expired
IsExpiredAtTtl(session, t) == t - session.lastActivityAt >= ttlMs

\* the TTL test `Date.now() - session.lastActivityAt > this.#ttlMs`
IsExpired(session, t) == t - session.lastActivityAt > ttlMs

\* ------------------------------------------------------------------------
\* Initial state: a store just constructed
\* ------------------------------------------------------------------------

\* a backend without keys
NoKeys == [key \in {} |-> Null]

\* the program positions that may call the RedisSessionStore at once
Callers == 1..MaxCallers

\* a caller with no call in flight
Idle == [op |-> "idle"]

\* an id for which the server holds no session object
NoSession == [status |-> "none"]

Init ==
  /\ sessions = <<>>
  /\ ttlMs \in TtlValues
  /\ cleanupInterval = "armed"
  /\ now = 0
  /\ issued = {}
  /\ pending = <<>>
  /\ updateCalls = 0
  /\ deleted = {}
  /\ lastOp = [op |-> "new"]
  /\ fastSessions = [id \in Ids |-> NoSession]
  /\ timeouts = [id \in Ids |-> <<>>]
  /\ debugLog = <<>>
  /\ storeFaults = 0
  /\ mutations = 0
  /\ lastSync = [op |-> "new"]
  /\ redisData = NoKeys
  /\ redisSets = NoKeys
  /\ redisStore = Null
  /\ calls = [c \in Callers |-> Idle]
  /\ remoteCalls = 0
  /\ lastRemote = [op |-> "new"]
  /\ steps = 0

\* ------------------------------------------------------------------------
\* Operations
\* ------------------------------------------------------------------------

\* the wall clock advances
Tick ==
  /\ now < MaxTime
  /\ now' = now + 1
  /\ lastOp' = [op |-> "tick"]
  /\ UNCHANGED <<sessions, ttlMs, cleanupInterval, issued, pending, updateCalls, deleted>>

\* ids made from a counter that starts over: the first id is handed out
\* again once the last has been
FreshIdsStartOver ==
  IF issued = Ids THEN {1}
  ELSE { i \in Ids \ issued : \A j \in Ids \ issued : i <= j }

\* randomUUID(): an id never returned before; which one is immaterial, so the
\* model hands them out in increasing order
FreshIds == { i \in Ids \ issued : \A j \in Ids \ issued : i <= j }

\* create() with the input spread last: { createdAt, lastActivityAt,
\* sessionId, ...data }
NewSessionDataLast(data, sessionId) ==
  Spread([createdAt |-> now, lastActivityAt |-> now, sessionId |-> sessionId],
         data)

\* the record create() builds: { ...data, createdAt, lastActivityAt, sessionId }
NewSession(data, sessionId) ==
  Spread(data, [createdAt |-> now, lastActivityAt |-> now,
                sessionId |-> sessionId])

create(data) ==
  \E sessionId \in FreshIds :
    /\ sessions' = MapSet(sessions, sessionId, NewSession(data, sessionId))
    /\ issued' = issued \cup {sessionId}
    /\ lastOp' = [op |-> "create", arg |-> data, ret |-> sessionId]
    /\ UNCHANGED <<ttlMs, cleanupInterval, now, pending, updateCalls, deleted>>

delete(sessionId) ==
  /\ sessions' = MapDelete(sessions, sessionId)
  /\ lastOp' = [op |-> "delete", id |-> sessionId,
                ret |-> MapHas(sessions, sessionId)]
  /\ deleted' = IF MapHas(sessions, sessionId)
                  THEN deleted \cup {sessionId}
                  ELSE deleted
  /\ UNCHANGED <<ttlMs, cleanupInterval, now, issued, pending, updateCalls>>

\* get() without the TTL test
GetResultNoTtl(m, sessionId) ==
  IF ~MapHas(m, sessionId) THEN Null ELSE MapGet(m, sessionId)

\* the value get() returns in map m at the current instant
GetResult(m, sessionId) ==
  IF ~MapHas(m, sessionId) THEN Null
  ELSE IF IsExpired(MapGet(m, sessionId), now) THEN Null
  ELSE MapGet(m, sessionId)

\* a get() that counts as activity: the record read is refreshed
GetEffectRefreshes(m, sessionId) ==
  IF ~MapHas(m, sessionId) THEN m
  ELSE IF IsExpired(MapGet(m, sessionId), now) THEN MapDelete(m, sessionId)
  ELSE MapSet(m, sessionId, [MapGet(m, sessionId) EXCEPT !.lastActivityAt = now])

\* the map get() leaves behind
GetEffect(m, sessionId) ==
  IF MapHas(m, sessionId) /\ IsExpired(MapGet(m, sessionId), now)
    THEN MapDelete(m, sessionId)
    ELSE m

get(sessionId) ==
  /\ sessions' = GetEffect(sessions, sessionId)
  /\ lastOp' = [op |-> "get", id |-> sessionId,
                ret |-> GetResult(sessions, sessionId)]
  /\ UNCHANGED <<ttlMs, cleanupInterval, now, issued, pending, updateCalls, deleted>>

\* does the auth payload pass `auth[key] !== value` for every filter entry
\* (filter values are strings, so a key the payload lacks never matches)
AuthMatches(auth, filter) ==
  \A key \in DOMAIN filter : key \in DOMAIN auth /\ auth[key] = filter[key]

\* list() without the `Skip expired sessions` test
ListKeepsExpired(session, filter) ==
  ~( /\ filter # NoFilter
     /\ session.auth # Undefined
     /\ ~AuthMatches(session.auth, filter) )

\* does the loop body of list() reach result.push(id) for this session
ListKeeps(session, filter) ==
  /\ ~IsExpired(session, now)
  /\ ~( /\ filter # NoFilter
        /\ session.auth # Undefined
        /\ ~AuthMatches(session.auth, filter) )

\* the array list() returns in map m: ids in iteration order
ListResult(m, filter) ==
  LET kept == SelectSeq(m, LAMBDA e : ListKeeps(e.value, filter))
  IN [i \in 1..Len(kept) |-> kept[i].sessionKey]

list(filter) ==
  /\ lastOp' = [op |-> "list", arg |-> filter,
                ret |-> ListResult(sessions, filter)]
  /\ UNCHANGED <<sessions, ttlMs, cleanupInterval, now, issued, pending, updateCalls, deleted>>

count ==
  /\ lastOp' = [op |-> "count", ret |-> Len(ListResult(sessions, NoFilter))]
  /\ UNCHANGED <<sessions, ttlMs, cleanupInterval, now, issued, pending, updateCalls, deleted>>

\* touch() that also restarts the record's age
TouchedResetsCreatedAt(session) ==
  [session EXCEPT !.lastActivityAt = now, !.createdAt = now]

\* the record after touch()'s `session.lastActivityAt = Date.now()`
Touched(session) == [session EXCEPT !.lastActivityAt = now]

touch(sessionId) ==
  /\ IF ~MapHas(sessions, sessionId)
       THEN /\ sessions' = sessions
            /\ lastOp' = [op |-> "touch", id |-> sessionId, ret |-> FALSE]
       ELSE IF IsExpired(MapGet(sessions, sessionId), now)
         THEN /\ sessions' = MapDelete(sessions, sessionId)
              /\ lastOp' = [op |-> "touch", id |-> sessionId, ret |-> FALSE]
         ELSE /\ sessions' =
                   MapSet(sessions, sessionId,
                          Touched(MapGet(sessions, sessionId)))
              /\ lastOp' = [op |-> "touch", id |-> sessionId, ret |-> TRUE]
  /\ UNCHANGED <<ttlMs, cleanupInterval, now, issued, pending, updateCalls, deleted>>

\* update(), from the call to `await this.get(sessionId)`: get() runs to its
\* end at once; a miss makes update return false, a hit suspends the call
\* with the object get() returned.  The suspended call holds that object by
\* reference; the only write to a stored object is touch()'s assignment to
\* lastActivityAt, a field update() overwrites, so holding its value is the
\* same
updateCall(sessionId, data) ==
  LET session == GetResult(sessions, sessionId)
  IN /\ sessions' = GetEffect(sessions, sessionId)
     /\ IF session = Null
          THEN /\ UNCHANGED <<pending, updateCalls, deleted>>
               /\ lastOp' = [op |-> "update", id |-> sessionId, ret |-> FALSE]
          ELSE /\ Len(pending) < MaxPending
               /\ updateCalls < MaxUpdates
               /\ updateCalls' = updateCalls + 1
               /\ pending' = Append(pending, [sessionId |-> sessionId,
                                              data |-> data,
                                              session |-> session])
               /\ lastOp' = [op |-> "updateCall", id |-> sessionId]
     /\ UNCHANGED <<ttlMs, cleanupInterval, now, issued, deleted>>

\* update() with the payload spread last: { ...session, lastActivityAt,
\* sessionId, ...data }
UpdatedPayloadLast(session, data, sessionId) ==
  Spread(Spread(session, [lastActivityAt |-> now, sessionId |-> sessionId]),
         data)

\* update() that does not refresh lastActivityAt: { ...session, ...data, sessionId }
UpdatedNoRefresh(session, data, sessionId) ==
  Spread(Spread(session, data), [sessionId |-> sessionId])

\* update() that replaces the record: { ...data, lastActivityAt, sessionId }
UpdatedReplaces(session, data, sessionId) ==
  Spread(data, [lastActivityAt |-> now, sessionId |-> sessionId])

\* the record update() builds: { ...session, ...data, lastActivityAt, sessionId }
Updated(session, data, sessionId) ==
  Spread(Spread(session, data),
         [lastActivityAt |-> now, sessionId |-> sessionId])

\* update(), after the await: the oldest suspended call resumes
updateResume ==
  /\ pending # <<>>
  /\ LET call == Head(pending)
     IN /\ sessions' = MapSet(sessions, call.sessionId,
                              Updated(call.session, call.data, call.sessionId))
        /\ lastOp' = [op |-> "update", id |-> call.sessionId,
                      arg |-> call.data, ret |-> TRUE]
  /\ pending' = Tail(pending)
  /\ UNCHANGED <<ttlMs, cleanupInterval, now, issued, updateCalls, deleted>>

\* one tick of the setInterval timer; a timer callback is a task of its own,
\* so it runs only when no continuation is waiting in the microtask queue
\* a sweep that stops at the first expired entry it deletes
cleanupExpiredFirstOnly ==
  /\ cleanupInterval = "armed"
  /\ pending = <<>>
  /\ sessions' =
       IF \E i \in 1..Len(sessions) : IsExpired(sessions[i].value, now)
         THEN LET first == CHOOSE i \in 1..Len(sessions) :
                             /\ IsExpired(sessions[i].value, now)
                             /\ \A j \in 1..(i - 1) : ~IsExpired(sessions[j].value, now)
              IN MapDelete(sessions, sessions[first].sessionKey)
         ELSE sessions
  /\ lastOp' = [op |-> "cleanupExpired"]
  /\ UNCHANGED <<ttlMs, cleanupInterval, now, issued, pending, updateCalls, deleted>>

cleanupExpired ==
  /\ cleanupInterval = "armed"
  /\ pending = <<>>
  /\ sessions' = SelectSeq(sessions, LAMBDA e : ~IsExpired(e.value, now))
  /\ lastOp' = [op |-> "cleanupExpired"]
  /\ UNCHANGED <<ttlMs, cleanupInterval, now, issued, pending, updateCalls, deleted>>

\* close() without `clearInterval(this.#cleanupInterval)`
closeKeepsInterval ==
  /\ sessions' = <<>>
  /\ lastOp' = [op |-> "close"]
  /\ UNCHANGED <<cleanupInterval, ttlMs, now, issued, pending, updateCalls, deleted>>

\* close() without `this.#sessions.clear()`
closeKeepsSessions ==
  /\ cleanupInterval' = "null"
  /\ lastOp' = [op |-> "close"]
  /\ UNCHANGED <<sessions, ttlMs, now, issued, pending, updateCalls, deleted>>

close ==
  /\ cleanupInterval' = "null"
  /\ sessions' = <<>>
  /\ lastOp' = [op |-> "close"]
  /\ UNCHANGED <<ttlMs, now, issued, pending, updateCalls, deleted>>

\* one step of a run of the store on its own: a run takes MaxSteps steps
StoreStep == steps < MaxSteps /\ steps' = steps + 1

\* The store's methods read and write the store only: a step of the store on
\* its own leaves the session objects and their timers as they are.
Next ==
  \/ Tick /\ UNCHANGED otherVars /\ StoreStep
  \/ \E data \in CreateInputs : create(data) /\ UNCHANGED otherVars /\ StoreStep
  \/ \E id \in Ids : delete(id) /\ UNCHANGED otherVars /\ StoreStep
  \/ \E id \in Ids : get(id) /\ UNCHANGED otherVars /\ StoreStep
  \/ \E filter \in Filters \cup {NoFilter} : list(filter) /\ UNCHANGED otherVars /\ StoreStep
  \/ count /\ UNCHANGED otherVars /\ StoreStep
  \/ \E id \in Ids : touch(id) /\ UNCHANGED otherVars /\ StoreStep
  \/ \E id \in Ids : \E data \in Payloads(id) :
       updateCall(id, data) /\ UNCHANGED otherVars /\ StoreStep
  \/ updateResume /\ UNCHANGED otherVars /\ StoreStep
  \/ cleanupExpired /\ UNCHANGED otherVars /\ StoreStep
  \/ close /\ UNCHANGED otherVars /\ StoreStep

Spec == Init /\ [][Next]_<<vars, otherVars, steps>>

\* ------------------------------------------------------------------------
\* Session objects of the server and their write-behind sync
\* ------------------------------------------------------------------------
\* FastMCP.ts is not part of the sources at hand.  The definitions of this
\* section follow the design of the synchronisation (one pending timeout per
\* session, a fixed debounce delay, one update per fire, cancel then delete
\* on close, an awaited create) and what the integration test observes of it;
\* the store they call is the MemorySessionStore above.  A timeout callback
\* is a task of the event loop of its own: the continuation of the update it
\* starts runs before any other task, so every step of a session object
\* waits for pending to be empty.

\* what a session starts with: the fields handed to create()
StartInputs == { [d EXCEPT !.connectionState = "connecting"] : d \in BaseData }

\* the connection states a live session moves between
MutationValues == {"ready", "error"}

\* a session object that keeps an id of its own making
NewFastSessionOwnId(data, sessionId) ==
  [status |-> "live",
   sessionId |-> 0,
   connectionState |-> data.connectionState,
   pendingSyncTimeout |-> Null,
   unsynced |-> 0]

\* the session object made once create() has returned its id
NewFastSession(data, sessionId) ==
  [status |-> "live",
   sessionId |-> sessionId,
   connectionState |-> data.connectionState,
   pendingSyncTimeout |-> Null,
   unsynced |-> 0]

\* start that resolves although create() rejected
CreateRejectedSwallowed == [op |-> "start", ret |-> "started"]

\* what the caller of start gets when the store's create() rejects
CreateRejected == [op |-> "start", ret |-> "rejected"]

\* A session is being established: create() is awaited, and the session
\* object exists only once it has returned the id.
SessionStart(data, rejects) ==
  /\ pending = <<>>
  /\ IF rejects
       THEN /\ storeFaults < MaxFaults
            /\ storeFaults' = storeFaults + 1
            /\ lastSync' = CreateRejected
            /\ UNCHANGED <<vars, fastSessions, timeouts, debugLog, mutations>>
       ELSE /\ create(data)
            /\ fastSessions' =
                 [fastSessions EXCEPT ![lastOp'.ret] =
                    NewFastSession(data, lastOp'.ret)]
            /\ lastSync' = [op |-> "start", ret |-> "started", id |-> lastOp'.ret]
            /\ UNCHANGED <<timeouts, debugLog, storeFaults, mutations>>

\* a sync that arms a timeout whether or not one is pending
ArmsTimeoutAlways(session) == TRUE

\* does the sync requested by a mutation arm a timeout: only if none is pending
ArmsTimeout(session) == session.pendingSyncTimeout = Null

\* a mutation that restarts the delay: the pending timeout is cleared and a
\* new one armed
MutatePostpones(id, value) ==
  LET session == fastSessions[id]
      due == now + SyncDebounce
  IN /\ pending = <<>>
     /\ session.status = "live"
     /\ session.connectionState # value
     /\ mutations < MaxMutations
     /\ mutations' = mutations + 1
     /\ timeouts' = [timeouts EXCEPT ![id] = <<due>>]
     /\ fastSessions' =
          [fastSessions EXCEPT ![id] =
             [session EXCEPT !.connectionState = value,
                             !.unsynced = @ + 1,
                             !.pendingSyncTimeout = [due |-> due]]]
     /\ lastSync' = [op |-> "mutate", id |-> id, value |-> value]
     /\ UNCHANGED <<vars, debugLog, storeFaults>>

\* A state mutation of a live session; it asks for a sync.
Mutate(id, value) ==
  LET session == fastSessions[id]
      due == now + SyncDebounce
  IN /\ pending = <<>>
     /\ session.status = "live"
     /\ session.connectionState # value
     /\ mutations < MaxMutations
     /\ mutations' = mutations + 1
     /\ IF ArmsTimeout(session)
          THEN /\ timeouts' = [timeouts EXCEPT ![id] = Append(@, due)]
               /\ fastSessions' =
                    [fastSessions EXCEPT ![id] =
                       [session EXCEPT !.connectionState = value,
                                       !.unsynced = @ + 1,
                                       !.pendingSyncTimeout = [due |-> due]]]
          ELSE /\ timeouts' = timeouts
               /\ fastSessions' =
                    [fastSessions EXCEPT ![id] =
                       [session EXCEPT !.connectionState = value,
                                       !.unsynced = @ + 1]]
     /\ lastSync' = [op |-> "mutate", id |-> id, value |-> value]
     /\ UNCHANGED <<vars, debugLog, storeFaults>>

\* a payload that is not read from the session when the timeout fires
SyncPayloadStale(session) == [connectionState |-> "connecting"]

\* the fields a fire writes: the state of the session at the fire
SyncPayload(session) == [connectionState |-> session.connectionState]

\* a failed sync reported as an error
LogEntryAtError(id) == [level |-> "error", id |-> id]

\* the log call for a failed sync: logger.debug("... Failed to sync session to store:")
LogEntry(id) == [level |-> "debug", id |-> id]

\* the armed timeouts without the i-th
WithoutTimeout(due, i) == [j \in 1..(Len(due) - 1) |-> IF j < i THEN due[j] ELSE due[j + 1]]

\* A due timeout of the session fires: the handle is dropped and one update
\* with the current state is issued; a rejection is logged and swallowed.
SyncFire(id, rejects) ==
  LET session == fastSessions[id]
  IN /\ pending = <<>>
     /\ \E i \in 1..Len(timeouts[id]) :
          /\ timeouts[id][i] <= now
          /\ timeouts' = [timeouts EXCEPT ![id] = WithoutTimeout(@, i)]
     /\ fastSessions' =
          [fastSessions EXCEPT ![id] =
             [session EXCEPT !.pendingSyncTimeout = Null, !.unsynced = 0]]
     /\ IF rejects
          THEN /\ storeFaults < MaxFaults
               /\ storeFaults' = storeFaults + 1
               /\ debugLog' = Append(debugLog, LogEntry(id))
               /\ lastSync' = [op |-> "fire", id |-> id, ret |-> "swallowed",
                               payload |-> SyncPayload(session),
                               unsynced |-> session.unsynced]
               /\ UNCHANGED vars
          ELSE /\ updateCall(session.sessionId, SyncPayload(session))
               /\ lastSync' = [op |-> "fire", id |-> id, ret |-> "issued",
                               payload |-> SyncPayload(session),
                               unsynced |-> session.unsynced]
               /\ UNCHANGED <<debugLog, storeFaults>>
     /\ UNCHANGED mutations

\* close that leaves the pending timeout armed
CancelledNot(due, handle) == due

\* clearTimeout(handle): the armed timeouts without the one the handle names
Cancelled(due, handle) ==
  IF handle = Null THEN due ELSE SelectSeq(due, LAMBDA d : d # handle.due)

\* a termination that clears the timeouts of every session: one timer
\* shared by the sessions of the server
TerminateCancelsAll(id) ==
  LET session == fastSessions[id]
  IN /\ pending = <<>>
     /\ session.status = "live"
     /\ timeouts' = [other \in Ids |-> <<>>]
     /\ fastSessions' =
          [fastSessions EXCEPT ![id] =
             [session EXCEPT !.status = "closed", !.pendingSyncTimeout = Null]]
     /\ delete(session.sessionId)
     /\ lastSync' = [op |-> "terminate", id |-> id,
                     handle |-> session.pendingSyncTimeout,
                     unsynced |-> session.unsynced]
     /\ UNCHANGED <<debugLog, storeFaults, mutations>>

\* The session is terminated: the pending timeout is cancelled, then the
\* record is deleted.
Terminate(id) ==
  LET session == fastSessions[id]
  IN /\ pending = <<>>
     /\ session.status = "live"
     /\ timeouts' =
          [timeouts EXCEPT ![id] = Cancelled(@, session.pendingSyncTimeout)]
     /\ fastSessions' =
          [fastSessions EXCEPT ![id] =
             [session EXCEPT !.status = "closed", !.pendingSyncTimeout = Null]]
     /\ delete(session.sessionId)
     /\ lastSync' = [op |-> "terminate", id |-> id,
                     handle |-> session.pendingSyncTimeout,
                     unsynced |-> session.unsynced]
     /\ UNCHANGED <<debugLog, storeFaults, mutations>>

\* one step of a run of the session objects over the store: a run takes
\* MaxSyncSteps steps
SyncStep == steps < MaxSyncSteps /\ steps' = steps + 1

\* The server's sessions over one store: the store is called by the session
\* objects only; the clock, the sweep and the continuation of a suspended
\* update run on their own.
SyncNext ==
  \/ Tick /\ UNCHANGED otherVars /\ SyncStep
  \/ updateResume /\ UNCHANGED otherVars /\ SyncStep
  \/ cleanupExpired /\ UNCHANGED otherVars /\ SyncStep
  \/ \E data \in StartInputs : \E rejects \in BOOLEAN :
       SessionStart(data, rejects) /\ UNCHANGED remoteVars /\ SyncStep
  \/ \E id \in Ids : \E value \in MutationValues :
       Mutate(id, value) /\ UNCHANGED remoteVars /\ SyncStep
  \/ \E id \in Ids : \E rejects \in BOOLEAN :
       SyncFire(id, rejects) /\ UNCHANGED remoteVars /\ SyncStep
  \/ \E id \in Ids : Terminate(id) /\ UNCHANGED remoteVars /\ SyncStep

SpecSync == Init /\ [][SyncNext]_<<vars, otherVars, steps>>

\* ------------------------------------------------------------------------
\* RedisSessionStore over its backend
\* ------------------------------------------------------------------------
\* RedisSessionStore.ts is not part of the sources at hand.  The store's
\* methods follow the design of the remote store (a record key and an index
\* set, batched create and delete, get and list that heal the index, update
\* and touch as read then write, a client made on first use); the backend
\* follows the mock client of the store's test, with the expiry of a key by
\* its TTL added.  Every method is a sequence of round trips to the backend,
\* and callers interleave between round trips.

\* the options a store is constructed with: the default or a custom
\* keyPrefix with a client handed in, or no client handed in
RemoteOptions ==
  { [keyPrefix |-> "fastmcp:session:", external |-> TRUE],
    [keyPrefix |-> "custom:prefix:", external |-> TRUE],
    [keyPrefix |-> "fastmcp:session:", external |-> FALSE] }

\* the fields of a record that may be undefined
OptionalFields == {"auth", "httpHeaders"}

\* JSON.stringify of a record: fields that are undefined are left out
Serialize(session) ==
  [json |-> [k \in { f \in DOMAIN session :
                       ~(f \in OptionalFields /\ session[f] = Undefined) }
               |-> session[k]]]

\* JSON.parse of a stored value
Parse(value) == value.json

\* data.set(key, value) of the backend
SetKey(data, key, value) ==
  [k \in DOMAIN data \cup {key} |-> IF k = key THEN value ELSE data[k]]

\* data.delete(key) of the backend
DelKey(data, key) == [k \in DOMAIN data \ {key} |-> data[k]]

\* the members of a set key
Members(sets, key) == IF key \in DOMAIN sets THEN sets[key] ELSE {}

\* SADD key member
Sadd(sets, key, member) == SetKey(sets, key, Members(sets, key) \cup {member})

\* SREM key member
Srem(sets, key, member) ==
  IF key \in DOMAIN sets THEN SetKey(sets, key, sets[key] \ {member}) ELSE sets

\* a record key under another prefix than the configured one
RecordKeyDefaultPrefix(sessionId) == <<"fastmcp:session:", sessionId>>

\* the key of a record: prefix + sessionId
RecordKey(sessionId) == <<redisStore.keyPrefix, sessionId>>

\* the key of the set of live ids: prefix + "index"
IndexKey == <<redisStore.keyPrefix, "index">>

\* what create() is called with
RemoteInputs == { d \in BaseData : d.auth # Undefined }

\* what update() is called with; touch() merges nothing
RemotePayloads ==
  { [connectionState |-> "closed"], [loggingLevel |-> "debug", sessionId |-> 0] }

\* touch(): no field supplied
NoFields == [k \in {} |-> Null]

\* an id no create() returns: "non-existent"
NoSuchId == 0

\* the ids a caller can name: those a create() has returned, and one that
\* none returns (an id is a random UUID: nobody names it before its create)
KnownIds == issued \cup {NoSuchId}

\* the calls a caller may make
RemoteCalls ==
  { [op |-> "create", data |-> d] : d \in RemoteInputs }
    \cup { [op |-> o, id |-> i] : o \in {"get", "delete"}, i \in KnownIds }
    \cup { [op |-> "update", id |-> i, data |-> p] : i \in KnownIds, p \in RemotePayloads }
    \cup { [op |-> "touch", id |-> i, data |-> NoFields] : i \in KnownIds }
    \cup { [op |-> "list"] }

\* new RedisSessionStore(options): the client is the one handed in, or none yet
RedisConstruct(keyPrefix, external) ==
  /\ redisStore = Null
  /\ redisStore' = [keyPrefix |-> keyPrefix,
                    ownsClient |-> ~external,
                    client |-> IF external THEN "ready" ELSE "none",
                    connects |-> 0,
                    quits |-> 0]
  /\ lastRemote' = [op |-> "construct"]
  /\ UNCHANGED <<redisData, redisSets, calls, remoteCalls>>

\* a client made anew by every caller that finds none ready
GetClientPerCaller(store) ==
  IF store.client \in {"none", "connecting"}
    THEN [store EXCEPT !.client = "connecting", !.connects = @ + 1]
    ELSE store

\* the client a method asks for: made, and its connection started, by the
\* first caller only; later callers share the attempt
GetClient(store) ==
  IF store.client = "none"
    THEN [store EXCEPT !.client = "connecting", !.connects = @ + 1]
    ELSE store

\* the first round trip of a method
FirstStep(op) ==
  CASE op \in {"create", "delete"} -> "exec"
    [] op \in {"get", "update", "touch"} -> "get"
    [] op = "list" -> "smembers"

\* A caller calls a method of the store; the method first asks for the
\* client, and goes on to its first round trip when the client is ready.
RedisCall(c, call) ==
  /\ redisStore # Null
  /\ redisStore.client # "closed"
  /\ calls[c] = Idle
  /\ remoteCalls < MaxRemoteCalls
  /\ remoteCalls' = remoteCalls + 1
  /\ calls' = [calls EXCEPT ![c] =
                 Spread(call, [pc |-> IF redisStore.client = "ready"
                                        THEN FirstStep(call.op)
                                        ELSE "client"])]
  /\ redisStore' = GetClient(redisStore)
  /\ UNCHANGED <<redisData, redisSets, lastRemote>>

\* The one connection attempt settles.
RedisConnected(ok) ==
  /\ redisStore # Null
  /\ redisStore.client = "connecting"
  /\ redisStore' = [redisStore EXCEPT !.client = IF ok THEN "ready" ELSE "failed"]
  /\ UNCHANGED <<redisData, redisSets, calls, lastRemote, remoteCalls>>

\* the call has settled: what its caller got, a value or an error
Settles(c, result) ==
  /\ calls' = [calls EXCEPT ![c] = Idle]
  /\ lastRemote' = Spread([k \in DOMAIN calls[c] \cap {"op", "id"} |-> calls[c][k]],
                          result)

\* the call returns ret
Returns(c, ret) == Settles(c, [threw |-> FALSE, ret |-> ret])

\* the call rejects
Throws(c) == Settles(c, [threw |-> TRUE, ret |-> Null])

\* The caller gets the client, or the failure of the attempt to connect.
RedisClient(c) ==
  /\ calls[c] # Idle
  /\ calls[c].pc = "client"
  /\ redisStore.client \in {"ready", "failed"}
  /\ IF redisStore.client = "ready"
       THEN /\ calls' = [calls EXCEPT ![c].pc = FirstStep(calls[c].op)]
            /\ UNCHANGED lastRemote
       ELSE IF calls[c].op \in {"update", "touch", "delete"}
              THEN Returns(c, FALSE)
              ELSE Throws(c)
  /\ UNCHANGED <<redisData, redisSets, redisStore, remoteCalls>>

\* create() whose failed batch leaves the id in the index
IndexAfterCreateOrphan(sets, sessionId, outcome) == Sadd(sets, IndexKey, sessionId)

\* the set keys after the batch of create(): SADD index id, if the batch ran
IndexAfterCreate(sets, sessionId, outcome) ==
  IF outcome = "ok" THEN Sadd(sets, IndexKey, sessionId) ELSE sets

\* create(): one batch, SET record with TTL and SADD index; a batch that
\* rejects fails the create.
RedisExecCreate(c, outcome) ==
  /\ calls[c] # Idle
  /\ calls[c].op = "create" /\ calls[c].pc = "exec"
  /\ \E sessionId \in FreshIds :
       /\ redisSets' = IndexAfterCreate(redisSets, sessionId, outcome)
       /\ IF outcome = "ok"
            THEN /\ redisData' =
                      SetKey(redisData, RecordKey(sessionId),
                             Serialize(NewSession(calls[c].data, sessionId)))
                 /\ issued' = issued \cup {sessionId}
                 /\ Returns(c, sessionId)
            ELSE /\ UNCHANGED <<redisData, issued>>
                 /\ Throws(c)
  /\ UNCHANGED <<redisStore, remoteCalls>>

\* get(), and the read of update() and touch(): GET record key
RedisGet(c) ==
  /\ calls[c] # Idle
  /\ calls[c].pc = "get"
  /\ LET key == RecordKey(calls[c].id)
     IN IF key \in DOMAIN redisData
          THEN IF calls[c].op = "get"
                 THEN Returns(c, Parse(redisData[key]))
                 ELSE /\ calls' = [calls EXCEPT ![c] =
                                     Spread(@, [pc |-> "set",
                                                session |-> Parse(redisData[key])])]
                      /\ UNCHANGED lastRemote
          ELSE /\ calls' = [calls EXCEPT ![c].pc = "srem"]
               /\ UNCHANGED lastRemote
  /\ UNCHANGED <<redisData, redisSets, redisStore, remoteCalls>>

\* a miss that leaves the index as it is
HealedNot(sets, sessionId) == sets

\* the index after a miss: SREM index id
Healed(sets, sessionId) == Srem(sets, IndexKey, sessionId)

\* after a miss: the id is taken out of the index, the call returns absent
RedisSrem(c) ==
  /\ calls[c] # Idle
  /\ calls[c].pc = "srem"
  /\ redisSets' = Healed(redisSets, calls[c].id)
  /\ Returns(c, IF calls[c].op = "get" THEN Null ELSE FALSE)
  /\ UNCHANGED <<redisData, redisStore, remoteCalls>>

\* a write that merges the supplied fields into the record stored at the
\* write, as an atomic update would
RewrittenOverStored(stored, session, data, sessionId) ==
  Updated(IF stored = Null THEN session ELSE stored, data, sessionId)

\* the record update() and touch() write: the record they read with the
\* supplied fields merged, whatever is stored at the write
Rewritten(stored, session, data, sessionId) == Updated(session, data, sessionId)

\* the write of update() and touch(): SET record key with a fresh TTL
RedisSet(c) ==
  /\ calls[c] # Idle
  /\ calls[c].pc = "set"
  /\ LET key == RecordKey(calls[c].id)
         stored == IF key \in DOMAIN redisData THEN Parse(redisData[key]) ELSE Null
     IN redisData' =
          SetKey(redisData, key,
                 Serialize(Rewritten(stored, calls[c].session, calls[c].data,
                                     calls[c].id)))
  /\ Returns(c, TRUE)
  /\ UNCHANGED <<redisSets, redisStore, remoteCalls>>

\* a delete() that throws what its batch threw
DeleteResultThrows(outcome, existed) ==
  IF outcome = "ok"
    THEN [threw |-> FALSE, ret |-> existed]
    ELSE [threw |-> TRUE, ret |-> Null]

\* what delete() returns: whether DEL removed the key; false when the batch
\* rejects or yields no results
DeleteResult(outcome, existed) ==
  [threw |-> FALSE, ret |-> IF outcome = "ok" THEN existed ELSE FALSE]

\* a delete() that leaves the id in the index
IndexAfterDeleteKept(sets, sessionId, outcome) == sets

\* the set keys after the batch of delete(): SREM index id, if the batch ran
IndexAfterDelete(sets, sessionId, outcome) ==
  IF outcome = "ok" THEN Srem(sets, IndexKey, sessionId) ELSE sets

\* delete(): one batch, DEL record and SREM index
RedisExecDelete(c, outcome) ==
  /\ calls[c] # Idle
  /\ calls[c].op = "delete" /\ calls[c].pc = "exec"
  /\ LET key == RecordKey(calls[c].id)
     IN /\ redisData' = IF outcome = "ok" THEN DelKey(redisData, key) ELSE redisData
        /\ redisSets' = IndexAfterDelete(redisSets, calls[c].id, outcome)
        /\ Settles(c, DeleteResult(outcome, key \in DOMAIN redisData))
  /\ UNCHANGED <<redisStore, remoteCalls>>

\* list(): SMEMBERS index
RedisSmembers(c) ==
  /\ calls[c] # Idle
  /\ calls[c].pc = "smembers"
  /\ LET members == Members(redisSets, IndexKey)
     IN IF members = {}
          THEN Returns(c, {})
          ELSE /\ calls' = [calls EXCEPT ![c] =
                              [op |-> "list", pc |-> "exists",
                               members |-> members, result |-> {}]]
               /\ UNCHANGED lastRemote
  /\ UNCHANGED <<redisData, redisSets, redisStore, remoteCalls>>

\* the member list() probes next
NextMember(members) == CHOOSE m \in members : \A n \in members : m <= n

\* a list() that returns the members it finds without a record as well
ProbedKeepsStale(result, member, exists) == result \cup {member}

\* the ids list() has collected after probing a member: EXISTS record key
Probed(result, member, exists) ==
  IF exists THEN result \cup {member} ELSE result

\* list(): EXISTS for the next member; one found absent is to be dropped
RedisExists(c) ==
  /\ calls[c] # Idle
  /\ calls[c].pc = "exists"
  /\ LET member == NextMember(calls[c].members)
         exists == RecordKey(member) \in DOMAIN redisData
         rest == calls[c].members \ {member}
         result == Probed(calls[c].result, member, exists)
     IN IF ~exists
          THEN /\ calls' = [calls EXCEPT ![c] =
                              [op |-> "list", pc |-> "listSrem", members |-> rest,
                               result |-> result, stale |-> member]]
               /\ UNCHANGED lastRemote
          ELSE IF rest = {}
                 THEN Returns(c, result)
                 ELSE /\ calls' = [calls EXCEPT ![c].members = rest,
                                                ![c].result = result]
                      /\ UNCHANGED lastRemote
  /\ UNCHANGED <<redisData, redisSets, redisStore, remoteCalls>>

\* list(): SREM of the member found without a record
RedisListSrem(c) ==
  /\ calls[c] # Idle
  /\ calls[c].pc = "listSrem"
  /\ redisSets' = Healed(redisSets, calls[c].stale)
  /\ IF calls[c].members = {}
       THEN Returns(c, calls[c].result)
       ELSE /\ calls' = [calls EXCEPT ![c] =
                           [op |-> "list", pc |-> "exists",
                            members |-> calls[c].members,
                            result |-> calls[c].result]]
            /\ UNCHANGED lastRemote
  /\ UNCHANGED <<redisData, redisStore, remoteCalls>>

\* a close() that quits whatever client the store holds
ClosedQuitsAny(store) ==
  IF store.client = "ready"
    THEN [store EXCEPT !.client = "closed", !.quits = @ + 1]
    ELSE store

\* the store after close(): quit() only on a client the store made itself
Closed(store) ==
  IF store.ownsClient /\ store.client = "ready"
    THEN [store EXCEPT !.client = "closed", !.quits = @ + 1]
    ELSE store

\* close()
RedisClose ==
  /\ redisStore # Null
  /\ redisStore.client \in {"none", "ready", "failed"}
  /\ redisStore' = Closed(redisStore)
  /\ lastRemote' = [op |-> "close", quits |-> redisStore'.quits - redisStore.quits]
  /\ UNCHANGED <<redisData, redisSets, calls, remoteCalls>>

\* The backend drops a record key whose TTL has run out.
RedisExpire(id) ==
  /\ redisStore # Null
  /\ RecordKey(id) \in DOMAIN redisData
  /\ redisData' = DelKey(redisData, RecordKey(id))
  /\ UNCHANGED <<redisSets, redisStore, calls, lastRemote, remoteCalls>>

\* what the steps of the RedisSessionStore leave alone, but for the ids
\* randomUUID() has handed out
memoryVars == <<sessions, ttlMs, cleanupInterval, now, pending, updateCalls,
                deleted, lastOp>>

RemoteNext ==
  \/ \E options \in RemoteOptions :
       RedisConstruct(options.keyPrefix, options.external)
         /\ UNCHANGED <<memoryVars, issued, syncVars, steps>>
  \/ \E c \in Callers : \E call \in RemoteCalls :
       RedisCall(c, call) /\ UNCHANGED <<memoryVars, issued, syncVars, steps>>
  \/ \E ok \in BOOLEAN : RedisConnected(ok) /\ UNCHANGED <<memoryVars, issued, syncVars, steps>>
  \/ \E c \in Callers : RedisClient(c) /\ UNCHANGED <<memoryVars, issued, syncVars, steps>>
  \/ \E c \in Callers : \E outcome \in {"ok", "rejects"} :
       RedisExecCreate(c, outcome) /\ UNCHANGED <<memoryVars, syncVars, steps>>
  \/ \E c \in Callers : RedisGet(c) /\ UNCHANGED <<memoryVars, issued, syncVars, steps>>
  \/ \E c \in Callers : RedisSrem(c) /\ UNCHANGED <<memoryVars, issued, syncVars, steps>>
  \/ \E c \in Callers : RedisSet(c) /\ UNCHANGED <<memoryVars, issued, syncVars, steps>>
  \/ \E c \in Callers : \E outcome \in {"ok", "rejects", "null"} :
       RedisExecDelete(c, outcome) /\ UNCHANGED <<memoryVars, issued, syncVars, steps>>
  \/ \E c \in Callers : RedisSmembers(c) /\ UNCHANGED <<memoryVars, issued, syncVars, steps>>
  \/ \E c \in Callers : RedisExists(c) /\ UNCHANGED <<memoryVars, issued, syncVars, steps>>
  \/ \E c \in Callers : RedisListSrem(c) /\ UNCHANGED <<memoryVars, issued, syncVars, steps>>
  \/ RedisClose /\ UNCHANGED <<memoryVars, issued, syncVars, steps>>
  \/ \E id \in Ids : RedisExpire(id) /\ UNCHANGED <<memoryVars, issued, syncVars, steps>>

\* the store's TTL is the largest one
RemoteInit == Init /\ ttlMs = MaxTtl

SpecRemote == RemoteInit /\ [][RemoteNext]_<<vars, otherVars, steps>>

\* ------------------------------------------------------------------------
\* Properties
\* ------------------------------------------------------------------------

\* A step taken by one of the named calls.  Every action writes its own name
\* to lastOp, so lastOp' names the call that made the step.
StepOf(ops) == lastOp'.op \in ops

\* the idle gap now - lastActivityAt of the record stored under id
IdleGap(id) == now - MapGet(sessions, id).lastActivityAt

\* C1: get(id) returns the stored record and touch(id) returns true exactly
\* when the idle gap D = now - lastActivityAt at the call is <= ttlMs, and
\* they return null / false exactly when D > ttlMs (a record idle for exactly
\* ttlMs is live); this holds in every reachable state, swept or not, and an
\* id with no entry gives null / false.
C1_ExpiryBoundary ==
  [][ /\ StepOf({"get"}) =>
           IF MapHas(sessions, lastOp'.id)
             THEN /\ (lastOp'.ret = MapGet(sessions, lastOp'.id))
                       <=> (IdleGap(lastOp'.id) <= ttlMs)
                  /\ (lastOp'.ret = Null) <=> (IdleGap(lastOp'.id) > ttlMs)
             ELSE lastOp'.ret = Null
      /\ StepOf({"touch"}) =>
           IF MapHas(sessions, lastOp'.id)
             THEN /\ (lastOp'.ret = TRUE) <=> (IdleGap(lastOp'.id) <= ttlMs)
                  /\ (lastOp'.ret = FALSE) <=> (IdleGap(lastOp'.id) > ttlMs)
             ELSE lastOp'.ret = FALSE
    ]_vars

\* C1 witness: a get has just returned a record whose idle gap equals a
\* positive ttl, while an id handed out earlier has no entry any more
C1_Witness ==
  /\ lastOp.op = "get"
  /\ lastOp.ret # Null
  /\ ttlMs > 0
  /\ now - lastOp.ret.lastActivityAt = ttlMs
  /\ \E id \in issued : ~MapHas(sessions, id)

\* C2: when update(id, payload) completes, the record stored under id has
\* sessionId = id, whatever sessionId the payload supplied, and the map has
\* no key it did not have before other than id: nothing appears under the
\* supplied sessionId, and every other entry is left as it was.
C2_UpdateKeepsSessionId ==
  [][ (StepOf({"update"}) /\ lastOp'.ret = TRUE) =>
        LET id == lastOp'.id
        IN /\ MapHas(sessions', id)
           /\ MapGet(sessions', id).sessionId = id
           /\ MapKeys(sessions') = MapKeys(sessions) \cup {id}
           /\ \A other \in MapKeys(sessions) \ {id} :
                MapGet(sessions', other) = MapGet(sessions, other)
    ]_vars

\* C2 witness: an update whose payload named another sessionId has completed,
\* and no entry exists under that other id
C2_Witness ==
  /\ lastOp.op = "update"
  /\ lastOp.ret = TRUE
  /\ "sessionId" \in DOMAIN lastOp.arg
  /\ lastOp.arg.sessionId # lastOp.id
  /\ MapHas(sessions, lastOp.id)
  /\ ~MapHas(sessions, lastOp.arg.sessionId)

\* the ids in the array a list() call returned
Returned(ids) == { ids[i] : i \in 1..Len(ids) }

\* the live ids whose auth payload is present and equals the filter on every
\* key of the filter
LiveMatching(filter) ==
  { id \in MapKeys(sessions) :
      /\ ~IsExpired(MapGet(sessions, id), now)
      /\ MapGet(sessions, id).auth # Undefined
      /\ AuthMatches(MapGet(sessions, id).auth, filter) }

\* C3: list(filter) returns exactly the non-expired ids whose record has an
\* auth payload that equals the filter on every key of the filter.
C3_ListExactlyMatching ==
  (lastOp.op = "list" /\ lastOp.arg # NoFilter) =>
    Returned(lastOp.ret) = LiveMatching(lastOp.arg)

\* C4: when list is called with a filter, no returned id belongs to a record
\* whose auth payload is absent.
C4_ListExcludesAbsentAuth ==
  (lastOp.op = "list" /\ lastOp.arg # NoFilter) =>
    \A i \in 1..Len(lastOp.ret) :
      MapGet(sessions, lastOp.ret[i]).auth # Undefined

\* C5: a successful update or touch never lowers lastActivityAt: the value
\* stored after the call is >= the value stored before it and, for update,
\* >= the value of the record the call read, whatever the payload supplies.
C5_LastActivityNonDecreasing ==
  [][ (StepOf({"update", "touch"}) /\ lastOp'.ret = TRUE) =>
        LET id == lastOp'.id
        IN /\ MapHas(sessions', id)
           /\ MapHas(sessions, id) =>
                MapGet(sessions', id).lastActivityAt
                  >= MapGet(sessions, id).lastActivityAt
           /\ StepOf({"update"}) =>
                MapGet(sessions', id).lastActivityAt
                  >= Head(pending).session.lastActivityAt
    ]_vars

\* C5 witness: an update whose payload supplied a lastActivityAt below the
\* stored one has completed, and the record carries a later instant
C5_Witness ==
  /\ lastOp.op = "update"
  /\ lastOp.ret = TRUE
  /\ "lastActivityAt" \in DOMAIN lastOp.arg
  /\ MapHas(sessions, lastOp.id)
  /\ MapGet(sessions, lastOp.id).createdAt > lastOp.arg.lastActivityAt
  /\ MapGet(sessions, lastOp.id).lastActivityAt
       > MapGet(sessions, lastOp.id).createdAt

\* C6: every stored record has lastActivityAt >= createdAt.
C6_LastActivityNotBeforeCreated ==
  \A i \in 1..Len(sessions) :
    sessions[i].value.lastActivityAt >= sessions[i].value.createdAt

\* C7: right after create(data) returned id, get(id) returns a record with
\* sessionId = id and lastActivityAt = createdAt = the instant of the call,
\* whose other fields are exactly those of data with data's values, even when
\* data carries its own sessionId, createdAt and lastActivityAt.
C7_CreateAssignsFields ==
  (lastOp.op = "create") =>
    LET session == GetResult(sessions, lastOp.ret)
    IN /\ session # Null
       /\ session.sessionId = lastOp.ret
       /\ session.createdAt = now
       /\ session.lastActivityAt = now
       /\ DOMAIN session = DOMAIN lastOp.arg \cup AutoFields
       /\ \A k \in DOMAIN lastOp.arg \ AutoFields : session[k] = lastOp.arg[k]

\* C7 witness: a create whose input carried its own, different values for the
\* three assigned fields has just returned
C7_Witness ==
  /\ lastOp.op = "create"
  /\ AutoFields \subseteq DOMAIN lastOp.arg
  /\ lastOp.arg.sessionId # lastOp.ret
  /\ lastOp.arg.createdAt # now
  /\ lastOp.arg.lastActivityAt # now
  /\ MapHas(sessions, lastOp.ret)

\* C8: delete(id) of a live record returns true and leaves get(id) absent;
\* a delete(id) after an earlier delete(id) returned true (ids are handed out
\* once, so no create comes between) returns false and leaves the store
\* unchanged; delete of an id never handed out returns false.
C8_DeleteIdempotent ==
  [][ StepOf({"delete"}) =>
        LET id == lastOp'.id
        IN /\ (MapHas(sessions, id) /\ ~IsExpired(MapGet(sessions, id), now))
                => (lastOp'.ret = TRUE /\ GetResult(sessions', id) = Null)
           /\ (id \in deleted) => (lastOp'.ret = FALSE /\ sessions' = sessions)
           /\ (id \notin issued) => lastOp'.ret = FALSE
    ]_vars

\* is id the id of no session at the current instant: it has no entry, or
\* its record is logically expired
NotFound(id) ==
  \/ ~MapHas(sessions, id)
  \/ IsExpired(MapGet(sessions, id), now)

\* C9: a call of get, update, touch or delete with an id that is unknown or
\* logically expired (evicted or not) returns null, respectively false.  (A
\* step that lengthens or keeps pending is a call of update; one that
\* shortens it is the completion of an earlier call.)
C9_NotFoundIsNegative ==
  [][ /\ (StepOf({"get"}) /\ NotFound(lastOp'.id)) => lastOp'.ret = Null
      /\ (StepOf({"touch", "delete"}) /\ NotFound(lastOp'.id)) =>
           lastOp'.ret = FALSE
      /\ (StepOf({"update", "updateCall"}) /\ Len(pending') >= Len(pending)
            /\ NotFound(lastOp'.id)) =>
           (lastOp'.op = "update" /\ lastOp'.ret = FALSE)
    ]_vars

\* C10: when update(id, payload) completes on the record it read, every field
\* the payload names other than sessionId and lastActivityAt has the payload's
\* value, every field it does not name has the value of the record read by
\* the call, lastActivityAt is the instant of the write, and the record has no
\* other fields.
C10_UpdateMergesSupplied ==
  [][ (StepOf({"update"}) /\ lastOp'.ret = TRUE) =>
        LET data == lastOp'.arg
            before == Head(pending).session
            after == MapGet(sessions', lastOp'.id)
        IN /\ DOMAIN after = DOMAIN before \cup DOMAIN data
           /\ \A k \in DOMAIN data \ {"sessionId", "lastActivityAt"} :
                after[k] = data[k]
           /\ \A k \in DOMAIN before \ (DOMAIN data \cup {"lastActivityAt"}) :
                after[k] = before[k]
           /\ after.lastActivityAt = now
    ]_vars

\* C10 witness: an update naming only connectionState and createdAt has
\* completed on a record whose loggingLevel an earlier update had changed,
\* and that loggingLevel is still there
C10_Witness ==
  /\ lastOp.op = "update"
  /\ lastOp.ret = TRUE
  /\ DOMAIN lastOp.arg = {"connectionState", "createdAt"}
  /\ MapHas(sessions, lastOp.id)
  /\ MapGet(sessions, lastOp.id).connectionState = "closed"
  /\ MapGet(sessions, lastOp.id).loggingLevel = "debug"

\* a step that is a call of update (its part up to the await): it keeps or
\* lengthens pending, where the completion of an earlier call shortens it
UpdateCallStep ==
  StepOf({"update", "updateCall"}) /\ Len(pending') >= Len(pending)

\* C11: a call of update(id, payload) or touch(id) whose id is unknown or
\* logically expired at the call returns false, is not suspended (so it
\* writes nothing later), leaves no entry under id, and leaves every other
\* entry as it was.
C11_NoUpsert ==
  [][ ((StepOf({"touch"}) \/ UpdateCallStep) /\ NotFound(lastOp'.id)) =>
        LET id == lastOp'.id
        IN /\ lastOp'.op \in {"touch", "update"}
           /\ lastOp'.ret = FALSE
           /\ pending' = pending
           /\ ~MapHas(sessions', id)
           /\ MapKeys(sessions') = MapKeys(sessions) \ {id}
           /\ \A other \in MapKeys(sessions) \ {id} :
                MapGet(sessions', other) = MapGet(sessions, other)
    ]_vars

\* C11 witness: an update has just returned false for an id that was handed
\* out and never deleted in a store never closed (so its record had expired),
\* while another record is stored
C11_Witness ==
  /\ lastOp.op = "update"
  /\ lastOp.ret = FALSE
  /\ lastOp.id \in issued \ deleted
  /\ cleanupInterval = "armed"
  /\ ~MapHas(sessions, lastOp.id)
  /\ Len(sessions) = 1

\* C12: a successful touch(id) sets lastActivityAt of the record under id to
\* the instant of the call and changes no other field of it, no other entry,
\* the order of the entries or the suspended calls.
C12_TouchOnlyRefreshes ==
  [][ (StepOf({"touch"}) /\ lastOp'.ret = TRUE) =>
        LET id == lastOp'.id
            before == MapGet(sessions, id)
            after == MapGet(sessions', id)
        IN /\ MapHas(sessions, id) /\ MapHas(sessions', id)
           /\ after.lastActivityAt = now
           /\ DOMAIN after = DOMAIN before
           /\ \A k \in DOMAIN before \ {"lastActivityAt"} : after[k] = before[k]
           /\ Len(sessions') = Len(sessions)
           /\ \A i \in 1..Len(sessions) :
                /\ sessions'[i].sessionKey = sessions[i].sessionKey
                /\ sessions[i].sessionKey # id => sessions'[i] = sessions[i]
           /\ pending' = pending
    ]_vars

\* C12 witness: a touch has just returned true for a record created at an
\* earlier instant, next to a second record
C12_Witness ==
  /\ lastOp.op = "touch"
  /\ lastOp.ret = TRUE
  /\ MapHas(sessions, lastOp.id)
  /\ MapGet(sessions, lastOp.id).lastActivityAt = now
  /\ MapGet(sessions, lastOp.id).createdAt < now
  /\ Len(sessions) = 2

\* is the array free of repeated ids
NoRepeats(ids) == \A i, j \in 1..Len(ids) : ids[i] = ids[j] => i = j

\* C13: list() without a filter returns, each once, exactly the ids that
\* create returned, for which no delete returned true, and whose record is
\* stored and not expired at the call.
C13_ListAllLive ==
  (lastOp.op = "list" /\ lastOp.arg = NoFilter) =>
    /\ NoRepeats(lastOp.ret)
    /\ Returned(lastOp.ret) =
         { id \in issued \ deleted :
             MapHas(sessions, id) /\ ~IsExpired(MapGet(sessions, id), now) }

\* the ids of the stored records that are not expired
LiveIds == { id \in MapKeys(sessions) : ~IsExpired(MapGet(sessions, id), now) }

\* C14: count() returns the number of stored, non-expired ids, which is the
\* number of ids list() returns in that state; it is 0 in a fresh store, and
\* a create raises what count() returns by exactly 1.
C14_CountIsListLength ==
  [][ /\ StepOf({"count"}) =>
           /\ lastOp'.ret = Cardinality(LiveIds)
           /\ lastOp'.ret = Len(ListResult(sessions, NoFilter))
           /\ (issued = {}) => lastOp'.ret = 0
      /\ StepOf({"create"}) =>
           Cardinality(LiveIds') = Cardinality(LiveIds) + 1
    ]_vars

\* C14 witness: count has just returned 1 while two records are stored, one
\* of them expired and not yet evicted
C14_Witness ==
  /\ lastOp.op = "count"
  /\ lastOp.ret = 1
  /\ Len(sessions) = 2

\* C15: after any close(), the first or a later one, the map is empty and
\* the timer handle is null: count() is 0 and get of every id ever handed out
\* is absent; a close() of a store already closed leaves it in that state.
C15_CloseClearsIdempotent ==
  [][ StepOf({"close"}) =>
        /\ sessions' = <<>>
        /\ cleanupInterval' = "null"
        /\ Len(ListResult(sessions', NoFilter)) = 0
        /\ \A id \in issued : GetResult(sessions', id) = Null
        /\ (cleanupInterval = "null") =>
             (MapKeys(sessions') \subseteq MapKeys(sessions)
                /\ cleanupInterval' = cleanupInterval)
    ]_vars

\* C15 witness: a close has just run on a store that still holds a suspended
\* update of a record created before it
C15_Witness ==
  /\ lastOp.op = "close"
  /\ issued # {}
  /\ deleted = {}
  /\ pending # <<>>
  /\ sessions = <<>>

\* ---- session objects (SpecSync) ----

\* a step taken by a session object: the named one of start, mutate, fire
\* and terminate (the store's own steps leave syncVars alone)
SyncStepOf(op) == syncVars' # syncVars /\ lastSync'.op = op

\* C16: the n >= 1 mutations of a live session since its timeout was armed
\* issue no update themselves; the fire issues exactly one update call, for
\* that session's id, whose payload is the session's state after the last of
\* them, and leaves no timeout of the session armed, so no second update
\* follows for the same mutations.
C16_Coalescing ==
  [][ /\ SyncStepOf("mutate") => UNCHANGED <<sessions, pending, updateCalls, lastOp>>
      /\ (SyncStepOf("fire") /\ lastSync'.ret = "issued") =>
           LET id == lastSync'.id
               latest == [connectionState |-> fastSessions[id].connectionState]
           IN /\ fastSessions[id].unsynced >= 1
              /\ lastSync'.payload = latest
              /\ lastOp'.id = id
              /\ \/ /\ lastOp'.op = "updateCall"
                    /\ pending' = <<[sessionId |-> id, data |-> latest,
                                     session |-> MapGet(sessions, id)]>>
                    /\ updateCalls' = updateCalls + 1
                 \/ /\ lastOp' = [op |-> "update", id |-> id, ret |-> FALSE]
                    /\ NotFound(id)
                    /\ UNCHANGED <<pending, updateCalls>>
              /\ timeouts'[id] = <<>>
              /\ fastSessions'[id].unsynced = 0
    ]_<<vars, syncVars>>

\* C16 witness: a fire has just issued the one update for two mutations of
\* its window, and the update is on its way with the state after the second
C16_Witness ==
  /\ lastSync.op = "fire"
  /\ lastSync.ret = "issued"
  /\ lastSync.unsynced = 2
  /\ Len(pending) = 1
  /\ pending[1].sessionId = lastSync.id
  /\ pending[1].data = [connectionState |-> fastSessions[lastSync.id].connectionState]
  /\ pending[1].data.connectionState # pending[1].session.connectionState

C18_CreateFailureFatal ==
  [][ SyncStepOf("start") =>
        IF storeFaults' # storeFaults
          THEN /\ lastSync'.ret = "rejected"
               /\ UNCHANGED <<fastSessions, timeouts, sessions, issued>>
          ELSE /\ lastSync'.ret = "started"
               /\ lastSync'.id \in issued' \ issued
               /\ fastSessions'[lastSync'.id].status = "live"
               /\ MapHas(sessions', lastSync'.id)
    ]_<<vars, syncVars>>

\* C18 witness: a start has just been rejected and no session exists
C18_Witness ==
  /\ lastSync.op = "start"
  /\ lastSync.ret = "rejected"
  /\ storeFaults = 1
  /\ issued = {}
  /\ \A id \in Ids : fastSessions[id].status = "none"

\* has a sync of the session failed before
SyncFailedBefore(id) == \E i \in 1..Len(debugLog) : debugLog[i].id = id

\* C19: when the update of a fire rejects, one debug entry is logged for the
\* session, nothing is thrown, the session keeps its status and the mutated
\* state, and the store is left alone; a later mutation of that session,
\* finding no timeout pending, arms one.
C19_BestEffortSync ==
  [][ /\ (SyncStepOf("fire") /\ storeFaults' # storeFaults) =>
           LET id == lastSync'.id
           IN /\ debugLog' = Append(debugLog, [level |-> "debug", id |-> id])
              /\ lastSync'.ret = "swallowed"
              /\ fastSessions'[id].status = fastSessions[id].status
              /\ fastSessions'[id].connectionState = fastSessions[id].connectionState
              /\ fastSessions'[id].pendingSyncTimeout = Null
              /\ UNCHANGED <<sessions, pending>>
      /\ (SyncStepOf("mutate") /\ SyncFailedBefore(lastSync'.id)
            /\ timeouts[lastSync'.id] = <<>>) =>
           /\ timeouts'[lastSync'.id] = <<now + SyncDebounce>>
           /\ fastSessions'[lastSync'.id].status = "live"
    ]_<<vars, syncVars>>

\* C19 witness: a live session whose sync was rejected has just been mutated
\* again and holds a pending timeout
C19_Witness ==
  /\ lastSync.op = "mutate"
  /\ SyncFailedBefore(lastSync.id)
  /\ fastSessions[lastSync.id].status = "live"
  /\ fastSessions[lastSync.id].unsynced = 1
  /\ Len(timeouts[lastSync.id]) = 1

\* C20: a live session has no or one armed timeout, the one its handle
\* names, and a mutation that finds a timeout pending arms none.
C20_AtMostOneTimeout ==
  [][ /\ \A id \in Ids :
           fastSessions'[id].status = "live" =>
             /\ Len(timeouts'[id]) <= 1
             /\ (timeouts'[id] = <<>>) = (fastSessions'[id].pendingSyncTimeout = Null)
      /\ (SyncStepOf("mutate") /\ timeouts[lastSync'.id] # <<>>) =>
           timeouts' = timeouts
    ]_<<vars, syncVars>>

\* C20 witness: a mutation has just found a timeout pending: the session has
\* two unsynced mutations and one armed timeout
C20_Witness ==
  /\ lastSync.op = "mutate"
  /\ fastSessions[lastSync.id].status = "live"
  /\ fastSessions[lastSync.id].unsynced = 2
  /\ Len(timeouts[lastSync.id]) = 1

\* the store call a step of a session object makes, if any: the step of
\* the store it contains wrote lastOp
StoreCallOf(ops) == lastOp' # lastOp /\ lastOp'.op \in ops

\* C21: the id a session object exposes is the id its create() returned and
\* stays that; a session object exists only once its create() has returned;
\* every update and delete a session issues names that id; and the record of
\* a live session leaves the store only by being expired, so list() returns
\* every live session whose record is not expired.
C21_SessionIdentity ==
  [][ /\ (SyncStepOf("start") /\ lastSync'.ret = "started") =>
           /\ lastOp'.op = "create"
           /\ lastOp'.ret \notin issued
           /\ fastSessions[lastOp'.ret].status = "none"
           /\ fastSessions'[lastOp'.ret].sessionId = lastOp'.ret
      /\ \A id \in Ids :
           /\ fastSessions[id].status # "none" =>
                /\ fastSessions'[id].status # "none"
                /\ fastSessions'[id].sessionId = fastSessions[id].sessionId
           /\ fastSessions'[id].status # "none" =>
                /\ fastSessions'[id].sessionId = id
                /\ id \in issued'
           /\ (fastSessions[id].status = "live" /\ fastSessions'[id].status = "live"
                 /\ MapHas(sessions, id) /\ ~MapHas(sessions', id)) =>
                now - MapGet(sessions, id).lastActivityAt > ttlMs
           /\ (fastSessions'[id].status = "live" /\ MapHas(sessions', id)
                 /\ now' - MapGet(sessions', id).lastActivityAt <= ttlMs) =>
                id \in Returned(ListResult(sessions', NoFilter))
      /\ (SyncStepOf("fire") /\ lastSync'.ret = "issued") =>
           /\ StoreCallOf({"update", "updateCall"})
           /\ lastOp'.id = fastSessions[lastSync'.id].sessionId
           /\ lastOp'.id = lastSync'.id
           /\ lastOp'.id \in issued
      /\ SyncStepOf("terminate") =>
           /\ StoreCallOf({"delete"})
           /\ lastOp'.id = fastSessions[lastSync'.id].sessionId
           /\ lastOp'.id = lastSync'.id
           /\ lastOp'.id \in issued
      /\ (SyncStepOf("start") \/ SyncStepOf("mutate")) =>
           ~StoreCallOf({"update", "updateCall", "delete"})
    ]_<<vars, syncVars>>

\* C21 witness: the second session has just had its update issued under its
\* own id while the first is live as well, and list() returns both
C21_Witness ==
  /\ lastSync.op = "fire"
  /\ lastSync.ret = "issued"
  /\ lastSync.id = 2
  /\ lastOp = [op |-> "updateCall", id |-> 2]
  /\ fastSessions[1].status = "live"
  /\ fastSessions[2].sessionId = 2
  /\ Returned(ListResult(sessions, NoFilter)) = {1, 2}

\* C30: a sweep tick leaves exactly the entries with now - lastActivityAt <=
\* ttlMs, in their order and with every field unchanged, and removes every
\* entry with now - lastActivityAt > ttlMs.
C30_SweepRemovesExactlyExpired ==
  [][ StepOf({"cleanupExpired"}) =>
        /\ MapKeys(sessions') =
             { id \in MapKeys(sessions) :
                 now - MapGet(sessions, id).lastActivityAt <= ttlMs }
        /\ \A id \in MapKeys(sessions') :
             MapGet(sessions', id) = MapGet(sessions, id)
        /\ \A i, j \in 1..Len(sessions') :
             (i < j) => MapIndex(sessions, sessions'[i].sessionKey)
                          < MapIndex(sessions, sessions'[j].sessionKey)
        /\ UNCHANGED <<cleanupInterval, ttlMs, pending>>
    ]_vars

\* C30 witness: a sweep has just run at the last instant on a store that
\* was handed both ids and deleted none: one entry is left, not expired
C30_Witness ==
  /\ lastOp.op = "cleanupExpired"
  /\ issued = Ids
  /\ deleted = {}
  /\ cleanupInterval = "armed"
  /\ Len(sessions) = 1
  /\ now - sessions[1].value.lastActivityAt <= ttlMs

\* ---- RedisSessionStore (SpecRemote) ----

\* the step in which caller c's call of the named method settles
SettlesIn(c, op) == calls[c] # Idle /\ calls[c].op = op /\ calls'[c] = Idle

\* a step of caller c's call at the named position
StepAt(c, pc) == calls[c] # Idle /\ calls[c].pc = pc /\ calls'[c] # calls[c]

\* the members of the index set in the backend state given
IndexOf(sets) == Members(sets, <<redisStore.keyPrefix, "index">>)

ListResultAfter(c) ==
  IF calls'[c] = Idle THEN lastRemote'.ret ELSE calls'[c].result

C31_SweepLifecycle ==
  [][ /\ StepOf({"close"}) => cleanupInterval' = "null"
      /\ (cleanupInterval = "armed" /\ ~StepOf({"close"})) =>
           cleanupInterval' = "armed"
      /\ cleanupInterval = "null" =>
           /\ cleanupInterval' = "null"
           /\ ~StepOf({"cleanupExpired"})
           /\ \A id \in MapKeys(sessions) \ MapKeys(sessions') :
                \/ StepOf({"close"})
                \/ StepOf({"get", "touch", "update", "delete"}) /\ lastOp'.id = id
    ]_vars

\* C31 witness: the store was closed, a record was created afterwards and
\* has outlived its TTL, and it is still in the map when list() is called
C31_Witness ==
  /\ cleanupInterval = "null"
  /\ lastOp.op = "list"
  /\ \E i \in 1..Len(sessions) : IsExpired(sessions[i].value, now)

\* C35: once a stored record is expired (now - lastActivityAt > ttlMs) no
\* step makes it live again: it is gone or still expired after the step, a
\* get of it returns null, a touch or update of it returns false, and no
\* list returns its id.
C35_ExpiryAbsorbing ==
  [][ \A id \in MapKeys(sessions) :
        IsExpired(MapGet(sessions, id), now) =>
          /\ MapHas(sessions', id) => IsExpired(MapGet(sessions', id), now')
          /\ (StepOf({"get"}) /\ lastOp'.id = id) => lastOp'.ret = Null
          /\ (StepOf({"touch", "update"}) /\ lastOp'.id = id) => lastOp'.ret = FALSE
          /\ StepOf({"list"}) => id \notin Returned(lastOp'.ret)
    ]_vars

\* C36: when delete(id) has run between the call of update(id, p) and the
\* continuation of that update, the record stays deleted once the update
\* has completed: get(id) is absent and list() does not contain id.
C36_UpdateDeleteInterleaving ==
  [][ ( /\ StepOf({"update"})
        /\ lastOp'.ret = TRUE
        /\ lastOp'.id \in deleted
        /\ ~MapHas(sessions, lastOp'.id) ) =>
        /\ GetResult(sessions', lastOp'.id) = Null
        /\ lastOp'.id \notin Returned(ListResult(sessions', NoFilter))
    ]_vars

\* the fields of a payload that update() stores as supplied
MergedFields(data) == DOMAIN data \ {"lastActivityAt", "sessionId"}

\* C37: when two update calls of one live id with disjoint field sets were
\* both made before the continuation of either ran, the record stored once
\* both have completed has the fields of both payloads.
C37_NoLostUpdate ==
  [][ ( /\ lastOp.op = "update"
        /\ lastOp.ret = TRUE
        /\ pending # <<>>
        /\ Head(pending).sessionId = lastOp.id
        /\ DOMAIN Head(pending).data \cap DOMAIN lastOp.arg = {}
        /\ StepOf({"update"})
        /\ pending' = Tail(pending) ) =>
        LET stored == MapGet(sessions', lastOp.id)
        IN /\ \A k \in MergedFields(lastOp.arg) : stored[k] = lastOp.arg[k]
           /\ \A k \in MergedFields(Head(pending).data) :
                stored[k] = Head(pending).data[k]
    ]_vars

\* C39: get, list and count leave every live record in the map with every
\* field as it was, lastActivityAt included, and add nothing; so a record
\* that is only read is returned by get and list exactly while now -
\* lastActivityAt <= ttlMs, counted from its last create, update or touch.
C39_ReadsDoNotExtendLife ==
  [][ StepOf({"get", "list", "count"}) =>
        /\ \A id \in MapKeys(sessions) :
             ~IsExpired(MapGet(sessions, id), now) =>
               /\ MapHas(sessions', id)
               /\ MapGet(sessions', id) = MapGet(sessions, id)
        /\ \A id \in MapKeys(sessions') :
             MapHas(sessions, id) /\ MapGet(sessions', id) = MapGet(sessions, id)
        /\ UNCHANGED <<ttlMs, now>>
        /\ (StepOf({"get"}) /\ MapHas(sessions, lastOp'.id)) =>
             (lastOp'.ret # Null) =
               (now - MapGet(sessions, lastOp'.id).lastActivityAt <= ttlMs)
        /\ (StepOf({"list"}) /\ lastOp'.arg = NoFilter) =>
             Returned(lastOp'.ret) =
               { id \in MapKeys(sessions) :
                   now - MapGet(sessions, id).lastActivityAt <= ttlMs }
    ]_vars

\* C39 witness: a get has just returned a record later than its last
\* activity, and the record in the map is the one returned
C39_Witness ==
  /\ lastOp.op = "get"
  /\ lastOp.ret # Null
  /\ now > lastOp.ret.lastActivityAt
  /\ MapHas(sessions, lastOp.id)
  /\ MapGet(sessions, lastOp.id) = lastOp.ret

\* C40: create() returns an id no earlier create() of the store returned,
\* be its record deleted or expired since, appends exactly one record,
\* stored under that id, and leaves every record of the map as it was.
C40_CreateOnlyAdds ==
  [][ StepOf({"create"}) =>
        LET id == lastOp'.ret
        IN /\ id \notin issued
           /\ id \notin deleted
           /\ ~MapHas(sessions, id)
           /\ issued' = issued \cup {id}
           /\ MapHas(sessions', id)
           /\ MapGet(sessions', id).sessionId = id
           /\ sessions' = Append(sessions, [sessionKey |-> id,
                                            value |-> MapGet(sessions', id)])
    ]_vars

\* C40 witness: the second create has just returned, after the record of
\* the first was deleted, and the map holds the new record only
C40_Witness ==
  /\ lastOp.op = "create"
  /\ lastOp.ret = 2
  /\ 1 \in deleted
  /\ MapKeys(sessions) = {2}

\* ---- session objects: staleness and ownership of the timers (SpecSync) ----

StoreCallId == IF lastOp'.op = "create" THEN lastOp'.ret ELSE lastOp'.id

\* C33: a mutation, a fire or a termination of one session leaves the
\* timeouts, the handle and the stored record of every other session as they
\* are; a fire issues an update for its own id only; and every store call a
\* session makes, the create of a new session included, leaves the records
\* of the other sessions in the store.
C33_PerSessionTimers ==
  [][ /\ \A id \in Ids :
           ( /\ SyncStepOf("mutate") \/ SyncStepOf("fire") \/ SyncStepOf("terminate")
             /\ lastSync'.id = id ) =>
             /\ \A other \in Ids \ {id} :
                  /\ timeouts'[other] = timeouts[other]
                  /\ fastSessions'[other] = fastSessions[other]
                  /\ \A i \in 1..Len(pending') : pending'[i].sessionId # other
             /\ (SyncStepOf("fire") /\ StoreCallOf({"update", "updateCall"})) =>
                  lastOp'.id = id
      /\ StoreCallOf({"create", "update", "updateCall", "delete"}) =>
           \A other \in MapKeys(sessions) \ {StoreCallId} :
             /\ MapHas(sessions', other)
             /\ MapGet(sessions', other) = MapGet(sessions, other)
    ]_<<vars, syncVars>>

\* C33 witness: the timeout of the first session has just fired while the
\* second session is live with its own timeout due and still armed, and the
\* store holds the records of both
C33_Witness ==
  /\ lastSync.op = "fire"
  /\ lastSync.id = 1
  /\ fastSessions[1].status = "live"
  /\ fastSessions[2].status = "live"
  /\ timeouts[1] = <<>>
  /\ Len(timeouts[2]) = 1
  /\ timeouts[2][1] <= now
  /\ MapKeys(sessions) = {1, 2}

\* ---- RedisSessionStore: concurrent writers and the index (SpecRemote) ----

====
